---------------------------- MODULE Spec2Model ----------------------------
(***************************************************************************)
(* A model of fuzzy.go: a spelling corrector that counts trained terms,    *)
(* indexes the deletion variants of frequent terms, and answers queries by *)
(* a four-tier lookup ranked by edit distance and frequency.               *)
(*                                                                         *)
(* A Go string is modelled as a sequence of one-character strings, a Go    *)
(* map as a function whose DOMAIN is the set of keys present, a Go slice   *)
(* as a sequence.                                                          *)
(***************************************************************************)
EXTENDS Integers, Sequences, FiniteSets, TLC

VARIABLES
    Data,       \* Model.Data: term -> count
    maxcount,   \* Model.maxcount
    suggest,    \* Model.suggest: deletion variant -> list of terms
    depth,      \* Model.depth
    threshold,  \* Model.threshold
    op,         \* the last call made: its name and arguments
    ret,        \* what that call returned
    pc,         \* where the call of EditsMulti being stepped stands
    edits,      \* EditsMulti's local slice
    d           \* EditsMulti's local copy of depth

vars == <<Data, maxcount, suggest, depth, threshold, op, ret, pc, edits, d>>

model == <<Data, maxcount, suggest, depth, threshold>>

loop == <<pc, edits, d>>

-----------------------------------------------------------------------------
(* Bounds of the model. *)

\* Longest string trained or queried.
MaxLen == 3

\* The bytes strings are made of: two lower-case letters and an upper-case one.
Alphabet == {"a", "b", "A"}

StringsOfLen(n) == [1..n -> Alphabet]

Strings == UNION {StringsOfLen(n) : n \in 0..MaxLen}

-----------------------------------------------------------------------------
(* strings.ToLower, byte by byte. *)

ToLowerChar(c) == IF c = "A" THEN "a" ELSE c

ToLower(s) == [i \in 1..Len(s) |-> ToLowerChar(s[i])]

min(a, b) == IF a < b THEN a ELSE b

max(a, b) == IF a < b THEN b ELSE a

-----------------------------------------------------------------------------
(* Levenshtein: two rolling rows, indexed 0..m.  Before row 1 is computed  *)
(* `previous` is a copy of the freshly made `current`, which is all zero.  *)

LevCell(a, b, i, j, previous, current) ==
    IF a[j] = b[i]
    THEN previous[j - 1]
    ELSE LET add    == previous[j] + 1
             delete == current[j - 1] + 1
             change == previous[j - 1] + 1
         IN  min(min(add, delete), change)

RECURSIVE LevInner(_, _, _, _, _, _)
LevInner(a, b, i, j, previous, current) ==
    IF j > Len(a)
    THEN current
    ELSE LevInner(a, b, i, j + 1, previous,
                  [current EXCEPT ![j] = LevCell(a, b, i, j, previous, current)])

RECURSIVE LevOuter(_, _, _, _)
LevOuter(a, b, i, current) ==
    IF i > Len(b)
    THEN current
    ELSE LET previous == current
             cleared  == [j \in 0..Len(b) |-> IF j = 0 THEN i ELSE 0]
         IN  LevOuter(a, b, i + 1, LevInner(a, b, i, 1, previous, cleared))

Levenshtein(a0, b0) ==
    LET swap == Len(a0) > Len(b0)
        a    == IF swap THEN b0 ELSE a0
        b    == IF swap THEN a0 ELSE b0
    IN  LevOuter(a, b, 1, [j \in 0..Len(b) |-> 0])[Len(a)]


-----------------------------------------------------------------------------
(* Edits1: the splits word[:i], word[i:] for i = 0..len(word), and from    *)
(* each the string with the first byte of the second half deleted; the     *)
(* last split, whose second half is empty, gives the word itself.          *)

Pair(word, i) == [str1 |-> SubSeq(word, 1, i), str2 |-> SubSeq(word, i + 1, Len(word))]

Edits1(word) ==
    LET splits == [k \in 1..(Len(word) + 1) |-> Pair(word, k - 1)]
    IN  [k \in 1..Len(splits) |->
            LET elem == splits[k]
            IN  IF Len(elem.str2) > 0
                THEN elem.str1 \o Tail(elem.str2)
                ELSE elem.str1]

\* What the range over snapshot[lo..hi] appends, in order: Edits1 of each
\* element (the range is split in halves to keep the recursion shallow).
RECURSIVE Appended(_, _, _)
Appended(snapshot, lo, hi) ==
    IF lo > hi THEN <<>>
    ELSE IF lo = hi THEN Edits1(snapshot[lo])
    ELSE LET mid == (lo + hi) \div 2
         IN  Appended(snapshot, lo, mid) \o Appended(snapshot, mid + 1, hi)

\* One pass of EditsMulti's inner loops: range over the slice as it stood
\* when the pass began, appending Edits1 of each element.
EditsPass(es) == es \o Appended(es, 1, Len(es))

\* The for loop of EditsMulti: decrement, leave when the counter is 0.
\* EditsLoop with the counter tested before it is decremented: one pass more.
RECURSIVE EditsLoopTestFirst(_, _)
EditsLoopTestFirst(es, dep) ==
    IF dep = 0
    THEN es
    ELSE EditsLoopTestFirst(EditsPass(es), dep - 1)

RECURSIVE EditsLoop(_, _)
EditsLoop(es, dep) ==
    IF dep - 1 = 0
    THEN es
    ELSE EditsLoop(EditsPass(es), dep - 1)

\* The loop leaves only if the counter, decremented, meets 0.
EditsMultiReturns(dep) == dep >= 1

EditsMulti(term, dep) == EditsLoop(Edits1(term), dep)

-----------------------------------------------------------------------------
(* The model object. *)

DefaultDepth == 2

DefaultThreshold == 4

Range(s) == {s[k] : k \in 1..Len(s)}

NoEntries == [x \in {} |-> 0]

\* Model.score on a given table.
scoreIn(D, input) == IF input \in DOMAIN D THEN D[input] ELSE 0

score(input) == scoreIn(Data, input)

\* model.suggest[edit] on a given index: the list, nil when the key is absent.
Hits(sug, edit) == IF edit \in DOMAIN sug THEN sug[edit] ELSE <<>>

\* model.Data[term]++
Increment(D, term) ==
    [t \in DOMAIN D \cup {term} |-> IF t = term THEN scoreIn(D, term) + 1 ELSE D[t]]

\* Indexable with the length test of the second tier of suggestPotential.
IndexableLong(sug, edit, term) == term \notin Range(Hits(sug, edit)) /\ Len(edit) > 2

\* The guard of the append in TrainWord.
Indexable(sug, edit, term) == term \notin Range(Hits(sug, edit)) /\ Len(edit) > 1

\* The loop over edits in TrainWord.  The first turn that meets an edit the
\* guard lets through appends the term to the edit's list; every later turn
\* for the same edit finds the term there and skips.  So the loop appends the
\* term once to the list of each edit the guard lets through as the loop starts.
StoreEdits(sug, term, es) ==
    LET stored == {edit \in Range(es) : Indexable(sug, edit, term)}
    IN  [e \in DOMAIN sug \cup stored |->
            IF e \in stored THEN Append(Hits(sug, e), term) ELSE sug[e]]

\* edits := EditsMulti(term, depth) and the loop over it.
StoreTerm(sug, term, dep) == StoreEdits(sug, term, EditsMulti(term, dep))

\* Triggered comparing the count before its increment.
TriggeredBefore(count, thr) == count - 1 = thr

\* Triggered comparing the count one increment ahead.
TriggeredAhead(count, thr) == count + 1 = thr

\* "If threshold is triggered"
Triggered(count, thr) == count = thr

\* TrainWord on a model value m = [Data, maxcount, suggest, depth, threshold].
TrainWordOn(m, term) ==
    LET D == Increment(m.Data, term)
    IN  [m EXCEPT !.Data = D,
                  !.maxcount = IF D[term] > m.maxcount THEN D[term] ELSE m.maxcount,
                  !.suggest = IF Triggered(D[term], m.threshold)
                              THEN StoreTerm(m.suggest, term, m.depth)
                              ELSE m.suggest]

\* TrainWord returns unless it calls EditsMulti with a depth that never meets 0.
TrainWordReturns(m, term) ==
    Triggered(scoreIn(m.Data, term) + 1, m.threshold) => EditsMultiReturns(m.depth)

\* Train: TrainWord on each term in order.
RECURSIVE TrainOn(_, _)
TrainOn(m, terms) ==
    IF terms = <<>> THEN m ELSE TrainOn(TrainWordOn(m, Head(terms)), Tail(terms))

RECURSIVE TrainReturns(_, _)
TrainReturns(m, terms) ==
    IF terms = <<>>
    THEN TRUE
    ELSE /\ TrainWordReturns(m, Head(terms))
         /\ TrainReturns(TrainWordOn(m, Head(terms)), Tail(terms))

Model == [Data |-> Data, maxcount |-> maxcount, suggest |-> suggest,
          depth |-> depth, threshold |-> threshold]

-----------------------------------------------------------------------------
(* suggestPotential: the candidate map, term -> Potential.  The map keeps  *)
(* the first Potential stored for a term (f @@ g lets f win).              *)

Potential(term, sc, leven, method) ==
    [term |-> term, score |-> sc, leven |-> leven, method |-> method]

\* Tier 0 stores the input itself when its count exceeds this.
KnownScore == 5

\* 0 - the input is a dictionary term
IsKnown(input) == score(input) > KnownScore

Tier0(input) ==
    IF IsKnown(input)
    THEN input :> Potential(input, score(input), 0, 0)
    ELSE NoEntries

\* 1 - the input is a key of suggest
Tier1(input) ==
    [pot \in Range(Hits(suggest, input)) |->
        Potential(pot, score(pot), Levenshtein(input, pot), 1)]

\* 2 - a deletion variant of the input is a dictionary term
Tier2Terms(es) == {e \in Range(es) : score(e) > 0 /\ Len(e) > 2}

Tier2(input, es) ==
    [edit \in Tier2Terms(es) |->
        Potential(edit, score(edit), Levenshtein(input, edit), 2)]

\* the local max of tier 2: the largest score stored, 0 when none was
Tier2Max(es) ==
    IF Tier2Terms(es) = {}
    THEN 0
    ELSE CHOOSE x \in {score(e) : e \in Tier2Terms(es)} :
             \A e \in Tier2Terms(es) : score(e) <= x

\* 3 - a deletion variant of the input is a key of suggest, and the term is near
Near(lev, dep) == lev <= dep + 1

Tier3Terms(input, es) ==
    {pot \in UNION {Range(Hits(suggest, e)) : e \in Range(es)} :
        Near(Levenshtein(input, pot), depth)}

Tier3(input, es) ==
    [pot \in Tier3Terms(input, es) |->
        Potential(pot, score(pot), Levenshtein(input, pot), 3)]

\* suggestPotential with the exhaustive search starting from an empty map.
suggestPotentialFresh(input0, exhaustive) ==
    LET input == ToLower(input0)
        s0    == Tier0(input)
        s1    == s0 @@ Tier1(input)
        es    == EditsMulti(input, depth)
        s2    == s1 @@ Tier2(input, es)
        s3    == s2 @@ Tier3(input, es)
    IN  IF IsKnown(input) /\ ~exhaustive THEN s0
        ELSE IF input \in DOMAIN suggest /\ ~exhaustive THEN s1
        ELSE IF Tier2Max(es) > 0 /\ ~exhaustive THEN s2
        ELSE IF exhaustive THEN Tier3(input, es)
        ELSE s3

suggestPotential(input0, exhaustive) ==
    LET input == ToLower(input0)
        s0    == Tier0(input)
        s1    == s0 @@ Tier1(input)
        es    == EditsMulti(input, depth)
        s2    == s1 @@ Tier2(input, es)
        s3    == s2 @@ Tier3(input, es)
    IN  IF IsKnown(input) /\ ~exhaustive THEN s0
        ELSE IF input \in DOMAIN suggest /\ ~exhaustive THEN s1
        ELSE IF Tier2Max(es) > 0 /\ ~exhaustive THEN s2
        ELSE s3

\* The call returns unless it reaches EditsMulti with a depth that never meets 0.
suggestPotentialReturns(input0, exhaustive) ==
    LET input == ToLower(input0)
    IN  \/ IsKnown(input) /\ ~exhaustive
        \/ input \in DOMAIN suggest /\ ~exhaustive
        \/ EditsMultiReturns(depth)

-----------------------------------------------------------------------------
(* best.  `order` lists the keys of the map in the order a range over it   *)
(* yields them.  A pass that does not return leaves best and bestcalc as   *)
(* they were initialised, so the order of the one pass that returns is the *)
(* only one the result depends on.                                         *)

\* The orders in which a range over a map with key set S may yield its keys.
Orders(S) ==
    {o \in [1..Cardinality(S) -> S] : \A i, j \in 1..Cardinality(S) : o[i] = o[j] => i = j}

\* Distances best looks at: i = 0 .. Passes - 1.
Passes == 4

\* "Bias these potentials"
Bias == 100

\* The comparison that lets a potential replace the best so far.
Beats(pot, bestcalc) == pot.score > bestcalc

\* bestcalc after the potential is taken.
Boosted(pot, input) ==
    IF pot.term[1] = input[1] THEN pot.score + pot.score * Bias ELSE pot.score

\* The range loop of pass i from position k on; st = [returned, val, panic, best, bestcalc].
RECURSIVE bestScan(_, _, _, _, _, _)
bestScan(input, potential, order, i, k, st) ==
    IF k > Len(order)
    THEN st
    ELSE LET pot == potential[order[k]]
         IN  IF pot.leven = 0
             THEN [st EXCEPT !.returned = TRUE, !.val = pot.term]
             ELSE IF pot.leven = i /\ Beats(pot, st.bestcalc)
             THEN IF Len(pot.term) = 0 \/ Len(input) = 0
                  THEN [st EXCEPT !.panic = TRUE]
                  ELSE bestScan(input, potential, order, i, k + 1,
                                [st EXCEPT !.bestcalc = Boosted(pot, input),
                                           !.best = pot.term])
             ELSE bestScan(input, potential, order, i, k + 1, st)

RECURSIVE bestFrom(_, _, _, _, _)
bestFrom(input, potential, order, i, st) ==
    IF i >= Passes
    THEN [panic |-> FALSE, term |-> st.best]
    ELSE LET after == bestScan(input, potential, order, i, 1, st)
         IN  IF after.panic THEN [panic |-> TRUE, term |-> <<>>]
             ELSE IF after.returned THEN [panic |-> FALSE, term |-> after.val]
             ELSE IF after.bestcalc > 0 THEN [panic |-> FALSE, term |-> after.best]
             ELSE bestFrom(input, potential, order, i + 1, after)

best(input, potential, order) ==
    bestFrom(input, potential, order, 0,
             [returned |-> FALSE, val |-> <<>>, panic |-> FALSE, best |-> <<>>, bestcalc |-> 0])

-----------------------------------------------------------------------------
(* The public queries. *)

\* make([]string, 10)
Placeholders == 10

\* Suggestions, given the map suggestPotential(input, exhaustive) returned
\* and the order in which the range over it yields its keys.
Suggestions(suggestions, order) ==
    LET output == [k \in 1..Placeholders |-> <<>>]
    IN  output \o [k \in 1..Len(order) |-> suggestions[order[k]].term]

\* SpellCheck, given the map suggestPotential(input, false) returned.
SpellCheck(input, suggestions, order) == best(input, suggestions, order)

-----------------------------------------------------------------------------
(* States and calls. *)

\* NewModel / Init
NewModel ==
    /\ Data = NoEntries
    /\ maxcount = 0
    /\ suggest = NoEntries
    /\ depth = DefaultDepth
    /\ threshold = DefaultThreshold

\* No call of EditsMulti is being stepped.
LoopIdle == pc = "idle" /\ edits = <<>> /\ d = 0

Call(name, args) == [name |-> name, args |-> args]

Pending == [done |-> FALSE]

Returned(val) == [done |-> TRUE, val |-> val]

-----------------------------------------------------------------------------
(* LevSpec: Levenshtein applied to every pair of strings. *)

LevInit ==
    /\ NewModel
    /\ LoopIdle
    /\ op \in {Call("Levenshtein", <<a, b>>) : a \in Strings, b \in Strings}
    /\ ret = Pending

LevenshteinCall ==
    /\ op.name = "Levenshtein"
    /\ ret = Pending
    /\ ret' = Returned(Levenshtein(op.args[1], op.args[2]))
    /\ UNCHANGED <<model, loop, op>>

LevNext == LevenshteinCall

LevSpec == LevInit /\ [][LevNext]_vars

\* The reference: the full-matrix recurrence, whose first row is 0, 1, 2, ...
RECURSIVE EditDistance(_, _)
EditDistance(a, b) ==
    IF Len(a) = 0 THEN Len(b)
    ELSE IF Len(b) = 0 THEN Len(a)
    ELSE LET a1 == SubSeq(a, 1, Len(a) - 1)
             b1 == SubSeq(b, 1, Len(b) - 1)
         IN  min(min(EditDistance(a1, b) + 1, EditDistance(a, b1) + 1),
                 EditDistance(a1, b1) + (IF a[Len(a)] = b[Len(b)] THEN 0 ELSE 1))

LevReturned == op.name = "Levenshtein" /\ ret.done

\* C1: Levenshtein(a, b) is the minimum number of single-character insertions,
\* deletions and substitutions that turn a into b.
LevenshteinIsEditDistance ==
    LevReturned => ret.val = EditDistance(op.args[1], op.args[2])

\* C6: Levenshtein(a, b) = Levenshtein(b, a).
LevenshteinSymmetric ==
    LevReturned => ret.val = Levenshtein(op.args[2], op.args[1])

-----------------------------------------------------------------------------
(* BestSpec: best applied to candidate maps of one or two terms, each with *)
(* a positive count and its distance to the lower-cased input, iterated in *)
(* every order.                                                            *)

\* Largest count of a candidate.
MaxScore == 2

CandidateTerms == UNION {StringsOfLen(n) : n \in 2..MaxLen}

CandidateSets == {{p, q} : p \in CandidateTerms, q \in CandidateTerms}

CandidateMaps(input) ==
    UNION {{[t \in S |-> Potential(t, sc[t], Levenshtein(ToLower(input), t), 1)] :
                sc \in [S -> 1..MaxScore]} : S \in CandidateSets}

BestInit ==
    /\ NewModel
    /\ LoopIdle
    /\ \E input \in Strings \ {<<>>} :
         op \in {Call("best", <<input, potential>>) : potential \in CandidateMaps(input)}
    /\ ret = Pending

BestCall ==
    /\ op.name = "best"
    /\ ret = Pending
    /\ \E order \in Orders(DOMAIN op.args[2]) :
         ret' = Returned([out |-> best(op.args[1], op.args[2], order), order |-> order])
    /\ UNCHANGED <<model, loop, op>>

BestNext == BestCall

BestSpec == BestInit /\ [][BestNext]_vars

\* The map holds exactly p and q: equal scores, the same distance i in 1..3,
\* p begins with the input's first character and q does not.
TiedPair(input, potential, p, q) ==
    /\ DOMAIN potential = {p, q}
    /\ potential[p].score = potential[q].score
    /\ potential[p].leven = potential[q].leven
    /\ potential[p].leven \in 1..3
    /\ p[1] = input[1]
    /\ q[1] # input[1]

\* C4: of two candidates tied in score and distance, best returns the one
\* that shares the input's first character, whatever the iteration order.
BestPrefersSameInitial ==
    (op.name = "best" /\ ret.done) =>
        \A p, q \in DOMAIN op.args[2] :
            TiedPair(op.args[1], op.args[2], p, q) =>
                ret.val.out = [panic |-> FALSE, term |-> p]

-----------------------------------------------------------------------------
(* TermSpec: one call of EditsMulti, stepped pass by pass, for every       *)
(* string and every depth SetDepth can have stored.  The slice at least    *)
(* doubles in each pass (Edits1 of any string has an element), so a        *)
(* counter that starts at 0 or below exhausts memory long before a 64-bit  *)
(* int could wrap round to 0: MaxSlice stands for the memory there is.     *)

\* Largest depth configured.
MaxDepth == 2

\* Depths at or below 0 behave alike; 0 and -1 stand for them.
DepthVals == 0..MaxDepth

DepthArgs == {-1} \cup DepthVals

\* Longest slice that fits in memory.
MaxSlice == 150

TermInit ==
    /\ NewModel
    /\ op \in {Call("EditsMulti", <<term, dep>>) : term \in Strings, dep \in DepthArgs}
    /\ ret = Pending
    /\ pc = "call"
    /\ edits = <<>>
    /\ d = 0

\* edits := Edits1(term)
EditsEnter ==
    /\ pc = "call"
    /\ edits' = Edits1(op.args[1])
    /\ d' = op.args[2]
    /\ pc' = "loop"
    /\ UNCHANGED <<model, op, ret>>

\* depth--; if depth == 0 { break } ... return edits
EditsBreak ==
    /\ pc = "loop"
    /\ d - 1 = 0
    /\ d' = d - 1
    /\ pc' = "returned"
    /\ ret' = Returned(edits)
    /\ UNCHANGED <<model, op, edits>>

\* depth--; one pass of appends
EditsStep ==
    /\ pc = "loop"
    /\ d - 1 # 0
    /\ Len(EditsPass(edits)) <= MaxSlice
    /\ d' = d - 1
    /\ edits' = EditsPass(edits)
    /\ UNCHANGED <<model, op, ret, pc>>

\* append cannot grow the slice: the runtime ends the program
EditsOutOfMemory ==
    /\ pc = "loop"
    /\ d - 1 # 0
    /\ Len(EditsPass(edits)) > MaxSlice
    /\ pc' = "out of memory"
    /\ UNCHANGED <<model, op, ret, edits, d>>

TermNext == EditsEnter \/ EditsBreak \/ EditsStep \/ EditsOutOfMemory

\* The program is sequential: a step that can be taken is taken.
TermSpec == TermInit /\ [][TermNext]_vars /\ WF_vars(TermNext)

\* C7: for every string and every depth, EditsMulti returns.
EditsMultiTerminates == <>(pc = "returned")

-----------------------------------------------------------------------------
(* The calls on a model object.  op and ret record the query made of the   *)
(* model and what it returned.                                             *)

\* Calls of TrainWord, counting each term of a Train.
MaxTrain == 6

\* Largest threshold configured.
MaxThreshold == 4

ThresholdVals == 0..MaxThreshold

\* The terms trained: a term, a longer term it is a deletion variant of, and
\* a still longer term with an upper-case letter that shares variants with it.
TrainTerms == {<<"a", "b">>, <<"a", "b", "b">>, <<"A", "b", "b", "b">>}

\* The inputs queried: lower-case words, the first letter in either case, and
\* the terms trained.
QueryInputs ==
    {s \in Strings : \A i \in 2..Len(s) : s[i] = ToLowerChar(s[i])} \cup TrainTerms

Trained(D) ==
    LET RECURSIVE Sum(_)
        Sum(S) == IF S = {} THEN 0
                  ELSE LET t == CHOOSE x \in S : TRUE IN D[t] + Sum(S \ {t})
    IN  Sum(DOMAIN D)

WithinBounds(m) == Trained(m.Data) <= MaxTrain

IsQuery(call) == call.name \in {"SpellCheck", "Suggestions"}

Install(m) ==
    /\ Data' = m.Data
    /\ maxcount' = m.maxcount
    /\ suggest' = m.suggest
    /\ depth' = m.depth
    /\ threshold' = m.threshold

SetDepth(val) ==
    /\ depth' = val
    /\ UNCHANGED <<Data, maxcount, suggest, threshold, loop, op, ret>>

SetThreshold(val) ==
    /\ threshold' = val
    /\ UNCHANGED <<Data, maxcount, suggest, depth, loop, op, ret>>

TrainWord(term) ==
    /\ TrainWordReturns(Model, term)
    /\ WithinBounds(TrainWordOn(Model, term))
    /\ Install(TrainWordOn(Model, term))
    /\ UNCHANGED <<loop, op, ret>>

Train(terms) ==
    /\ TrainReturns(Model, terms)
    /\ WithinBounds(TrainOn(Model, terms))
    /\ Install(TrainOn(Model, terms))
    /\ UNCHANGED <<loop, op, ret>>

SpellCheckCall(input) ==
    /\ suggestPotentialReturns(input, FALSE)
    /\ LET suggestions == suggestPotential(input, FALSE)
       IN  \E order \in Orders(DOMAIN suggestions) :
               ret' = Returned(SpellCheck(input, suggestions, order))
    /\ op' = Call("SpellCheck", <<input>>)
    /\ UNCHANGED <<model, loop>>

SuggestionsCall(input, exhaustive) ==
    /\ suggestPotentialReturns(input, exhaustive)
    /\ LET suggestions == suggestPotential(input, exhaustive)
       IN  \E order \in Orders(DOMAIN suggestions) :
               ret' = Returned(Suggestions(suggestions, order))
    /\ op' = Call("Suggestions", <<input, exhaustive>>)
    /\ UNCHANGED <<model, loop>>

Init ==
    /\ NewModel
    /\ LoopIdle
    /\ op = Call("none", <<>>)
    /\ ret = Pending

-----------------------------------------------------------------------------
(* Spec: a model configured and trained in any order. *)

Configure ==
    \/ \E val \in DepthVals : SetDepth(val)
    \/ \E val \in ThresholdVals : SetThreshold(val)

Teach ==
    \/ \E term \in TrainTerms : TrainWord(term)
    \/ \E t1, t2 \in TrainTerms : Train(<<t1, t2>>)

Next == Configure \/ Teach

Spec == Init /\ [][Next]_vars

-----------------------------------------------------------------------------
(* QuerySpec: depth and threshold are set before the first term is        *)
(* trained, and the model is queried.  A query leaves the model as it is,  *)
(* so every state of the model is reached by calls that precede the        *)
(* queries; each query is taken from such a state.                         *)

ConfigureFirst == Data = NoEntries /\ ~IsQuery(op) /\ Configure

TeachWord == ~IsQuery(op) /\ \E term \in TrainTerms : TrainWord(term)

CheckSpelling == ~IsQuery(op) /\ \E input \in QueryInputs : SpellCheckCall(input)

ListSuggestions ==
    /\ ~IsQuery(op)
    /\ \E input \in QueryInputs, exhaustive \in BOOLEAN : SuggestionsCall(input, exhaustive)

QueryNext == ConfigureFirst \/ TeachWord \/ CheckSpelling \/ ListSuggestions

QuerySpec == Init /\ [][QueryNext]_vars

-----------------------------------------------------------------------------
(* OneTermSpec: a model left at its default depth and threshold, trained   *)
(* on one term, any string, and asked to correct any string.               *)

TeachOneTerm ==
    /\ ~IsQuery(op)
    /\ \E term \in Strings : DOMAIN Data \subseteq {term} /\ TrainWord(term)

CheckAnySpelling == ~IsQuery(op) /\ \E input \in Strings : SpellCheckCall(input)

OneTermNext == TeachOneTerm \/ CheckAnySpelling

OneTermSpec == Init /\ [][OneTermNext]_vars

-----------------------------------------------------------------------------
(* The claims about the model object. *)

IsLower(s) == ToLower(s) = s

\* The strings left when one character of t is deleted.
Deletions(t) == {SubSeq(t, 1, i - 1) \o SubSeq(t, i + 1, Len(t)) : i \in 1..Len(t)}

\* The characters of t at the positions in I, in order.
Pick(t, I) ==
    LET at == [k \in 1..Cardinality(I) |->
                  CHOOSE i \in I : Cardinality({j \in I : j < i}) = k - 1]
    IN  [k \in 1..Cardinality(I) |-> t[at[k]]]

\* The deletion closure of t at depth dd: t with at most dd characters deleted.
DeletionClosure(t, dd) ==
    {Pick(t, I) : I \in {J \in SUBSET (1..Len(t)) : Len(t) - Cardinality(J) <= dd}}

\* The keys of the deletion index whose list holds t.
KeysListing(t) == {e \in DOMAIN suggest : t \in Range(suggest[e])}

Found(t) == [panic |-> FALSE, term |-> t]

\* C2: with the default depth and threshold, when a lower-case term t of three
\* or more characters is the only term trained and was trained at least
\* threshold times, SpellCheck of t less any one character returns t.
SpellCheckRestoresDeletion ==
    (op.name = "SpellCheck" /\ depth = DefaultDepth /\ threshold = DefaultThreshold) =>
        \A t \in DOMAIN Data :
            (/\ DOMAIN Data = {t}
             /\ Data[t] >= threshold
             /\ IsLower(t)
             /\ Len(t) >= 3
             /\ op.args[1] \in Deletions(t)) => ret.val = Found(t)

SpellCheckRestoresDeletionWitness ==
    /\ op.name = "SpellCheck"
    /\ depth = DefaultDepth
    /\ threshold = DefaultThreshold
    /\ \E t \in DOMAIN Data :
         /\ DOMAIN Data = {t}
         /\ Data[t] >= threshold
         /\ IsLower(t)
         /\ Len(t) >= 3
         /\ op.args[1] \in Deletions(t)
         /\ ret.val = Found(t)

\* The terms a returned list names.
Listed(output) == Range(output)

\* C3: the terms Suggestions(input, true) returns include every term
\* Suggestions(input, false) returns on the same model.
ExhaustiveIsSuperset ==
    (/\ op.name = "Suggestions"
     /\ op.args[2] = FALSE
     /\ suggestPotentialReturns(op.args[1], TRUE)) =>
        LET all == suggestPotential(op.args[1], TRUE)
        IN  \A order \in Orders(DOMAIN all) :
                Listed(ret.val) \subseteq Listed(Suggestions(all, order))

\* The exhaustive list names a term the returned, non-empty list does not.
ExhaustiveIsSupersetWitness ==
    /\ op.name = "Suggestions"
    /\ op.args[2] = FALSE
    /\ suggestPotentialReturns(op.args[1], TRUE)
    /\ Len(ret.val) > Placeholders
    /\ DOMAIN suggestPotential(op.args[1], TRUE) \ Listed(ret.val) # {}

\* C5: the list Suggestions returns holds exactly the candidate terms: as many
\* entries as candidates, and no entry that is not a candidate.
SuggestionsListsCandidates ==
    op.name = "Suggestions" =>
        LET candidates == DOMAIN suggestPotential(op.args[1], op.args[2])
        IN  /\ Len(ret.val) = Cardinality(candidates)
            /\ Listed(ret.val) \subseteq candidates

\* C8: with depth >= 1 and threshold >= 1 set before training, when the count
\* of t is exactly the threshold the keys listing t are the strings longer
\* than one character of t's deletion closure at that depth, and no others.
IndexedUnderClosure ==
    (depth >= 1 /\ threshold >= 1) =>
        \A t \in DOMAIN Data :
            Data[t] = threshold =>
                KeysListing(t) = {e \in DeletionClosure(t, depth) : Len(e) > 1}

\* At depth 1 a term is indexed under fewer keys than it has variants longer
\* than one character.
IndexedUnderClosureWitness ==
    /\ depth = 1
    /\ threshold >= 1
    /\ \E t \in DOMAIN Data :
         /\ Data[t] = threshold
         /\ KeysListing(t) # {}
         /\ KeysListing(t) # {e \in DeletionClosure(t, Len(t)) : Len(e) > 1}

\* The terms some key of the deletion index lists.
Indexed == UNION {Range(suggest[e]) : e \in DOMAIN suggest}

\* C9 as claimed: every indexed term has a count of at least the threshold.
IndexedTermsFrequent == \A t \in Indexed : score(t) >= threshold

\* C9 as amended: a call that does not raise the threshold keeps every indexed
\* term's count at or above the threshold.
IndexedTermsStayFrequent ==
    [][(IndexedTermsFrequent /\ threshold' <= threshold) => IndexedTermsFrequent']_vars

\* A term is indexed and counted above a threshold at least 1.
IndexedTermsStayFrequentWitness ==
    /\ threshold >= 1
    /\ \E t \in Indexed : score(t) > threshold

\* C10: with depth >= 1 and threshold >= 1 set before training, SpellCheck of
\* a lower-case term of two or more characters whose count is at least the
\* threshold returns the term, whatever else was trained.
KnownTermKept ==
    (op.name = "SpellCheck" /\ depth >= 1 /\ threshold >= 1) =>
        LET t == op.args[1]
        IN  (IsLower(t) /\ Len(t) >= 2 /\ score(t) >= threshold) => ret.val = Found(t)

\* The term came back from among several candidates of the index.
KnownTermKeptWitness ==
    /\ op.name = "SpellCheck"
    /\ depth >= 1
    /\ threshold >= 1
    /\ LET t == op.args[1]
       IN  /\ IsLower(t) /\ Len(t) >= 2 /\ score(t) >= threshold
           /\ ~IsKnown(t)
           /\ Cardinality(DOMAIN suggestPotential(t, FALSE)) >= 2
           /\ ret.val = Found(t)

=============================================================================
